---- MODULE Spec2Model ----
(***************************************************************************)
(* Task Manager backend: the Task model (src/models/Task.js) and the task  *)
(* routes (src/routes/taskRoutes.js) over one MongoDB collection.          *)
(*                                                                         *)
(* Values are records [k, v]: k is the kind of value, v the value.         *)
(* Strings are sequences of one-character strings, so that emptiness,      *)
(* parseInt, Number and number formatting are computed and not assumed.    *)
(***************************************************************************)
EXTENDS Integers, Sequences, FiniteSets, TLC

VARIABLES
  tasks,      \* the documents of the tasks collection
  counter,    \* the sequence counter kept by the auto-increment plugin
  nextOid,    \* the next _id a constructed document gets
  now,        \* Date.now() at the next new Task(...)
  inflight,   \* create requests between new Task(...) and the response:
              \* stage "new" before the counter increment of save(),
              \* "counted" after it, "inserted" once the document is
              \* stored and save() has not yet returned
  pending,    \* the answers of the handlers whose awaited database call
              \* is done and whose response is not yet sent; equal answers
              \* are numbered 1, 2, ...
  last,       \* the response sent by the last step
  maxCreated, \* history: the greatest id a 201 response has carried
  firstHeld,  \* history: for each id, the _id of the first document that
              \* was persisted with it (0: none yet)
  deleted,    \* history: the ids whose task a DELETE removed
  fresh       \* history: the creates answered 201 whose id has had no
              \* PUT or DELETE applied since the response

vars == <<tasks, counter, nextOid, now, inflight, pending, last,
          maxCreated, firstHeld, deleted, fresh>>

(* ------------------------------ bounds -------------------------------- *)
\* the number of create requests that reach new Task(...)
MaxCreates == 2
\* requests between the start of their handler and their response
MaxInFlight == 2

(* ---------------------------- JSON values ----------------------------- *)
Str(s) == [k |-> "string", v |-> s]
Num(n) == [k |-> "number", v |-> n]
Bool(b) == [k |-> "boolean", v |-> b]
DateV(t) == [k |-> "date", v |-> t]
Null == [k |-> "null", v |-> 0]
Undef == [k |-> "undefined", v |-> 0]
Obj == [k |-> "object", v |-> 0]
NaN == [k |-> "NaN", v |-> 0]
\* Infinity (sign 1) and -Infinity (sign -1)
Inf(sign) == [k |-> "infinity", v |-> sign]
\* the double nearest to m * 10^e, for a number that is not an integer
\* below 10^15; m has at most 15 digits and is not divisible by 10
Dec(m, e) == [k |-> "decimal", v |-> <<m, e>>]

Digits == {"0", "1", "2", "3", "4", "5", "6", "7", "8", "9"}

DigitVal(c) ==
  CASE c = "0" -> 0 [] c = "1" -> 1 [] c = "2" -> 2 [] c = "3" -> 3
    [] c = "4" -> 4 [] c = "5" -> 5 [] c = "6" -> 6 [] c = "7" -> 7
    [] c = "8" -> 8 [] c = "9" -> 9

DigitChar(d) ==
  CASE d = 0 -> "0" [] d = 1 -> "1" [] d = 2 -> "2" [] d = 3 -> "3"
    [] d = 4 -> "4" [] d = 5 -> "5" [] d = 6 -> "6" [] d = 7 -> "7"
    [] d = 8 -> "8" [] d = 9 -> "9"

RECURSIVE NatToStr(_)
NatToStr(n) ==
  IF n < 10 THEN <<DigitChar(n)>>
  ELSE Append(NatToStr(n \div 10), DigitChar(n % 10))

\* String(n) of a JavaScript integer below 10^15
NumToStr(n) == IF n < 0 THEN <<"-">> \o NatToStr(0 - n) ELSE NatToStr(n)

HexDigits ==
  Digits \cup {"a", "b", "c", "d", "e", "f", "A", "B", "C", "D", "E", "F"}

HexVal(c) ==
  IF c \in Digits THEN DigitVal(c)
  ELSE CASE c \in {"a", "A"} -> 10 [] c \in {"b", "B"} -> 11
         [] c \in {"c", "C"} -> 12 [] c \in {"d", "D"} -> 13
         [] c \in {"e", "E"} -> 14 [] c \in {"f", "F"} -> 15

\* c is a digit of the radix (2, 8, 10 or 16)
RadixDigit(c, radix) == c \in HexDigits /\ HexVal(c) < radix

\* the value of the longest run of digits of the radix that s begins with
RECURSIVE ParseDigits(_, _, _)
ParseDigits(s, radix, acc) ==
  IF s = <<>> \/ ~RadixDigit(Head(s), radix) THEN acc
  ELSE ParseDigits(Tail(s), radix, acc * radix + HexVal(Head(s)))

\* StrWhiteSpaceChar: white space and line terminators. U+0009, U+000A,
\* U+000D, U+000C, U+0020, U+000B, U+00A0, U+1680, U+FEFF; the others
\* (U+2000-U+200A, U+2028, U+2029, U+202F, U+205F, U+3000) are characters
\* that the strings of this module cannot hold.
WhiteSpace == {"\t", "\n", "\r", "\f", " ", "", " ", " ", "﻿"}

RECURSIVE SkipSpace(_)
SkipSpace(s) ==
  IF s # <<>> /\ Head(s) \in WhiteSpace THEN SkipSpace(Tail(s)) ELSE s

RECURSIVE Pow10(_)
Pow10(n) == IF n = 0 THEN 1 ELSE 10 * Pow10(n - 1)

\* the number of decimal digits of a natural number
RECURSIVE NumDigits(_)
NumDigits(n) == IF n < 10 THEN 1 ELSE 1 + NumDigits(n \div 10)

\* the double nearest to m * 10^e. With d the digits of m (m not divisible
\* by 10), the value lies in [10^(d+e-1), 10^(d+e)). Up to half of the
\* least double, 2.47032822920...e-324, it underflows to 0; from the
\* greatest double and half a step on, 1.79769313486231580...e308, it is
\* Infinity; of at most 15 digits from 10^-307 on it is a double of its
\* own. What remains (more than 15 digits, the subnormal doubles, values
\* that agree with a threshold in their first nine digits) depends on the
\* rounding of the double and has no arm.
RECURSIVE Scaled(_, _)
Scaled(m, e) ==
  LET abs == IF m < 0 THEN 0 - m ELSE m
      d == NumDigits(abs)
      lead == IF d <= 9 THEN abs * Pow10(9 - d) ELSE abs \div Pow10(d - 9)
  IN IF m = 0 THEN Num(0)
     ELSE IF m % 10 = 0 THEN Scaled(m \div 10, e + 1)
     ELSE CASE d + e <= 0 - 324 -> Num(0)
            [] d + e = 0 - 323
                 /\ (lead < 247032822 \/ (d <= 9 /\ lead = 247032822)) -> Num(0)
            [] d + e >= 310 -> Inf(IF m < 0 THEN 0 - 1 ELSE 1)
            [] d + e = 309 /\ lead > 179769313 -> Inf(IF m < 0 THEN 0 - 1 ELSE 1)
            [] d + e = 309 /\ d <= 15
                 /\ (lead < 179769313 \/ (d <= 9 /\ lead = 179769313)) -> Dec(m, e)
            [] d <= 15 /\ e >= 0 /\ d + e <= 15 -> Num(m * Pow10(e))
            [] d <= 15 /\ e >= 0 /\ d + e > 15 /\ d + e <= 308 -> Dec(m, e)
            [] d <= 15 /\ e < 0 /\ d + e >= 0 - 306 -> Dec(m, e)

\* parseInt(id), no radix given: leading white space, an optional sign, an
\* optional 0x or 0X (radix 16, else 10), then the longest run of digits of
\* the radix; NaN when that run is empty, else the double of its value.
ParseInt(s) ==
  LET t == SkipSpace(s)
      signed == t # <<>> /\ Head(t) \in {"-", "+"}
      u == IF signed THEN Tail(t) ELSE t
      hex == Len(u) >= 2 /\ u[1] = "0" /\ u[2] \in {"x", "X"}
      radix == IF hex THEN 16 ELSE 10
      w == IF hex THEN Tail(Tail(u)) ELSE u
  IN IF w = <<>> \/ ~RadixDigit(Head(w), radix) THEN NaN
     ELSE IF signed /\ Head(t) = "-"
       THEN Scaled(0 - ParseDigits(w, radix, 0), 0)
     ELSE Scaled(ParseDigits(w, radix, 0), 0)

sTrue == <<"t", "r", "u", "e">>
sFalse == <<"f", "a", "l", "s", "e">>
sYes == <<"y", "e", "s">>
sNo == <<"n", "o">>
sObject == <<"[", "o", "b", "j", "e", "c", "t", " ", "O", "b", "j", "e", "c", "t", "]">>

(* ----------------- express-validator (routes, lines 96-98) ------------- *)
\* the string a validator sees for a body value
ToStr(x) ==
  CASE x.k = "string" -> x.v
    [] x.k = "number" -> NumToStr(x.v)
    [] x.k = "boolean" -> (IF x.v THEN sTrue ELSE sFalse)
    [] x.k = "object" -> sObject
    [] x.k \in {"null", "undefined"} -> <<>>

NotEmpty(x) == Len(ToStr(x)) # 0

IsBoolean(x) == ToStr(x) \in {sTrue, sFalse, <<"1">>, <<"0">>}

\* the fields validationResult(req) reports
PostErrorsNoDescription(body) ==
  {f \in {"title"} : ~NotEmpty(body[f])}
    \cup {f \in {"status"} : body[f] # Undef /\ ~IsBoolean(body[f])}

PostErrors(body) ==
  {f \in {"title", "description"} : ~NotEmpty(body[f])}
    \cup {f \in {"status"} : body[f] # Undef /\ ~IsBoolean(body[f])}

(* --------------------- schema casts (Task.js, 4-10) -------------------- *)
CastError == [k |-> "CastError", v |-> 0]

\* String path: a plain object does not cast
CastString(x) ==
  CASE x.k = "string" -> x
    [] x.k = "number" -> Str(NumToStr(x.v))
    [] x.k = "boolean" -> Str(IF x.v THEN sTrue ELSE sFalse)
    [] x.k \in {"null", "undefined"} -> x
    [] x.k = "object" -> CastError

\* Boolean path: the values that convert to true and to false; null stays
CastBoolean(x) ==
  CASE x \in {Bool(TRUE), Str(sTrue), Num(1), Str(<<"1">>), Str(sYes)} -> Bool(TRUE)
    [] x \in {Bool(FALSE), Str(sFalse), Num(0), Str(<<"0">>), Str(sNo)} -> Bool(FALSE)
    [] x.k \in {"null", "undefined"} -> x
    [] OTHER -> CastError

RECURSIVE TrimEnd(_)
TrimEnd(s) ==
  IF s # <<>> /\ s[Len(s)] \in WhiteSpace
  THEN TrimEnd(SubSeq(s, 1, Len(s) - 1)) ELSE s

\* the longest run of decimal digits that s begins with
RECURSIVE DigitRun(_)
DigitRun(s) ==
  IF s = <<>> \/ Head(s) \notin Digits THEN <<>>
  ELSE <<Head(s)>> \o DigitRun(Tail(s))

After(s, n) == SubSeq(s, n + 1, Len(s))

sInfinity == <<"I", "n", "f", "i", "n", "i", "t", "y">>

\* 0x, 0o and 0b literals: the prefix, then digits of the radix to the end
NonDecimal(t) ==
  LET radix == CASE t[2] \in {"x", "X"} -> 16
                 [] t[2] \in {"o", "O"} -> 8
                 [] t[2] \in {"b", "B"} -> 2
      w == After(t, 2)
  IN IF \A i \in 1..Len(w) : RadixDigit(w[i], radix)
     THEN Scaled(ParseDigits(w, radix, 0), 0) ELSE NaN

\* StrDecimalLiteral: a sign, then Infinity, or digits with an optional
\* fraction and an optional exponent, to the end
Decimal(t) ==
  LET signed == Head(t) \in {"-", "+"}
      sign == IF Head(t) = "-" THEN 0 - 1 ELSE 1
      u == IF signed THEN Tail(t) ELSE t
      int == DigitRun(u)
      r1 == After(u, Len(int))
      dot == r1 # <<>> /\ Head(r1) = "."
      frac == IF dot THEN DigitRun(Tail(r1)) ELSE <<>>
      r2 == IF dot THEN After(r1, 1 + Len(frac)) ELSE r1
      hasExp == r2 # <<>> /\ Head(r2) \in {"e", "E"}
      r3 == IF hasExp THEN Tail(r2) ELSE r2
      expSigned == hasExp /\ r3 # <<>> /\ Head(r3) \in {"-", "+"}
      r4 == IF expSigned THEN Tail(r3) ELSE r3
      expDigits == IF hasExp THEN DigitRun(r4) ELSE <<>>
      r5 == After(r4, Len(expDigits))
      exp == IF expSigned /\ Head(r3) = "-"
             THEN 0 - ParseDigits(expDigits, 10, 0)
             ELSE ParseDigits(expDigits, 10, 0)
  IN IF u = sInfinity THEN Inf(sign)
     ELSE IF /\ int # <<>> \/ frac # <<>>
             /\ hasExp => expDigits # <<>>
             /\ r5 = <<>>
       THEN Scaled(sign * ParseDigits(int \o frac, 10, 0), exp - Len(frac))
     ELSE NaN

\* Number(s) of a string: white space at both ends is dropped; nothing is 0
StringToNumber(s) ==
  LET t == TrimEnd(SkipSpace(s))
  IN IF t = <<>> THEN Num(0)
     ELSE IF Len(t) >= 3 /\ t[1] = "0"
               /\ t[2] \in {"x", "X", "o", "O", "b", "B"}
       THEN NonDecimal(t)
     ELSE Decimal(t)

\* Number path: '' is null, a string or a boolean is Number(value), and NaN
\* does not cast
CastNumber(x) ==
  CASE x.k \in {"number", "decimal", "infinity"} -> x
    [] x.k = "boolean" -> Num(IF x.v THEN 1 ELSE 0)
    [] x.k \in {"null", "undefined"} -> x
    [] x.k = "string" /\ x.v = <<>> -> Null
    [] x.k = "string" /\ x.v # <<>> ->
         (IF StringToNumber(x.v) = NaN THEN CastError ELSE StringToNumber(x.v))
    [] x.k = "object" -> CastError

\* Date path; a number is a time in milliseconds (date strings are not
\* among the values of the model)
CastDate(x) ==
  CASE x.k = "number" -> DateV(x.v)
    [] x.k = "date" -> x
    [] x.k \in {"null", "undefined"} -> x
    [] x.k = "string" /\ x.v = <<>> -> Null
    [] x.k \in {"boolean", "object"} -> CastError

\* required: true on a String path
RequiredOk(x) == x.k = "string" /\ Len(x.v) # 0

Fields == {"title", "description", "status", "id", "creationDate"}

(* ------------------------- inputs of the model ------------------------- *)
sA == <<"a">>
sB == <<"b">>
sD == <<"d">>
sFoo == <<"f", "o", "o">>

NoBody == [f \in Fields |-> Undef]

Body(title, description, status) ==
  [NoBody EXCEPT !.title = title, !.description = description, !.status = status]

\* the ids a path or a body names
IdRange == 1..MaxCreates

PostBodies ==
  { Body(Str(sA), Str(sD), Undef),
    Body(Str(sA), Str(sD), Bool(TRUE)),
    Body(Str(sA), Str(sD), Str(<<"1">>)),
    Body(Num(7), Str(sD), Bool(FALSE)),
    [Body(Str(sA), Str(sD), Undef) EXCEPT !.id = Num(MaxCreates + 1)],
    NoBody,
    Body(Str(<<>>), Str(sD), Undef),
    Body(Str(sA), Str(<<>>), Bool(TRUE)),
    Body(Str(sA), Undef, Undef),
    Body(Null, Str(sD), Undef),
    Body(Str(sA), Str(sD), Str(sFoo)),
    Body(Str(sA), Str(sD), Null),
    Body(Obj, Str(sD), Undef) }

PutBodies ==
  { NoBody,
    Body(Str(sB), Undef, Undef),
    Body(Str(<<>>), Undef, Undef),
    Body(Undef, Str(<<>>), Undef),
    Body(Undef, Null, Undef),
    Body(Undef, Undef, Bool(TRUE)),
    Body(Undef, Undef, Str(<<"0">>)),
    Body(Undef, Undef, Str(sFoo)),
    Body(Undef, Undef, Null),
    [NoBody EXCEPT !.creationDate = Num(0)],
    [NoBody EXCEPT !.id = Str(<<" ">>)] }
    \cup { [NoBody EXCEPT !.id = Num(i)] : i \in IdRange }

\* the paths that name an id in decimal
IdPaths == { NumToStr(i) : i \in IdRange }

Paths ==
  IdPaths
    \cup { <<"2", "a">>, <<"a">>, <<"\t", "0", "x", "1">> }

Queries == { Undef, Str(sTrue), Str(sFalse), Str(sFoo), Str(<<>>) }

(* ------------------------- the Task model ------------------------------ *)
\* new Task({ title, status, description }): casts, and the schema defaults
NewTask(body, oid, t) ==
  [ oid |-> oid,
    title |-> CastString(body.title),
    description |-> CastString(body.description),
    status |-> IF body.status = Undef THEN Bool(FALSE) ELSE CastBoolean(body.status),
    creationDate |-> DateV(t),
    id |-> Undef ]

\* the paths validation at save() rejects
DocErrors(doc) ==
  {f \in {"title", "description"} : doc[f] = CastError \/ ~RequiredOk(doc[f])}
    \cup {f \in {"status"} : doc[f] = CastError}

\* the plugin's atomic increment: the counter's new value, which is the id
SetNextCounterStuck(c) == IF c = 0 THEN 1 ELSE c

SetNextCounter(c) == c + 1

\* findOne({ id: n })
Matching(ts, n) == {t \in ts : t.id = n}

\* the unique index on id
Duplicate(ts, doc) == \E t \in ts : t.oid # doc.oid /\ t.id = doc.id

\* the casts of findOneAndUpdate's update document
CastUpdate(body) ==
  [ title |-> CastString(body.title),
    description |-> CastString(body.description),
    status |-> CastBoolean(body.status),
    id |-> CastNumber(body.id),
    creationDate |-> CastDate(body.creationDate) ]

\* runValidators: the validators of the paths the update sets
UpdateErrors(upd) ==
  {f \in Fields : upd[f] = CastError}
    \cup {f \in {"title", "description"} : upd[f] # Undef /\ ~RequiredOk(upd[f])}

\* $set of the paths the update names
ApplyUpdate(doc, upd) ==
  [f \in DOMAIN doc |->
     IF f \in Fields /\ upd[f] # Undef THEN upd[f] ELSE doc[f]]

\* status === 'true'
StatusFilterNotFalse(q) == Bool(q # Str(sFalse))

StatusFilter(q) == Bool(q = Str(sTrue))

\* Task.find(...) of GET /
Find(ts, q) ==
  IF q # Undef THEN {t \in ts : t.status = StatusFilter(q)} ELSE ts

(* ------------------------------ the state ------------------------------ *)
\* a response: the handler, the status code, the kind of body and the body
NoRequest == [op |-> "none", code |-> 0, kind |-> "none", out |-> Null]

Init ==
  /\ tasks = {}
  /\ counter = 0
  /\ nextOid = 1
  /\ now = 1
  /\ inflight = {}
  /\ pending = {}
  /\ last = NoRequest
  /\ maxCreated = 0
  /\ firstHeld = [i \in IdRange |-> 0]
  /\ deleted = {}
  /\ fresh = {}

Failure(r, code, message) ==
  [r EXCEPT !.code = code, !.kind = "message", !.out = message]

\* history: doc is persisted with its id
Held(doc) ==
  IF doc.id.k = "number" /\ doc.id.v \in IdRange /\ firstHeld[doc.id.v] = 0
  THEN [firstHeld EXCEPT ![doc.id.v] = doc.oid]
  ELSE firstHeld

\* the requests between the start of their handler and their response
InFlight == Cardinality(inflight) + Cardinality(pending)

\* the awaited call of a handler is done: its answer waits to be sent
Await(answer) ==
  pending' = pending \cup
    {[ answer |-> answer,
       n |-> Cardinality({p \in pending : p.answer = answer}) + 1 ]}

(* --------------------------- POST /tasks ------------------------------- *)
\* the handler up to its await: validationResult, and new Task(...), which
\* draws the _id and reads the clock for creationDate
PostStart(body) ==
  LET r == [NoRequest EXCEPT !.op = "POST"]
      errors == PostErrors(body)
      doc == NewTask(body, nextOid, now)
  IN IF errors # {} THEN
       /\ last' = [r EXCEPT !.code = 400, !.kind = "errors", !.out = errors]
       /\ UNCHANGED <<tasks, counter, nextOid, now, inflight, pending,
                      maxCreated, firstHeld, deleted, fresh>>
     ELSE
       /\ nextOid <= MaxCreates
       /\ InFlight < MaxInFlight
       /\ nextOid' = nextOid + 1
       /\ now' = now + 1
       /\ inflight' = inflight \cup
            {[ doc |-> doc, body |-> body, startMax |-> maxCreated,
               stage |-> "new" ]}
       /\ UNCHANGED <<tasks, counter, pending, last,
                      maxCreated, firstHeld, deleted, fresh>>

\* save() up to the plugin's pre-save hook: the document's validation, then
\* the atomic increment of the counter, whose new value is the id
PostCount(e) ==
  LET r == [NoRequest EXCEPT !.op = "POST"]
  IN /\ e.stage = "new"
     /\ UNCHANGED <<tasks, nextOid, now, pending,
                    maxCreated, firstHeld, deleted, fresh>>
     /\ IF DocErrors(e.doc) # {} THEN
          /\ inflight' = inflight \ {e}
          /\ last' = Failure(r, 500, "ValidationError")
          /\ UNCHANGED counter
        ELSE
          /\ counter' = SetNextCounter(counter)
          /\ inflight' = (inflight \ {e}) \cup
               {[e EXCEPT !.doc.id = Num(counter'), !.stage = "counted"]}
          /\ UNCHANGED last

\* the insert of save(): the document is stored, or the unique index on id
\* rejects it, save() throws and the catch answers 500
PostInsert(e) ==
  LET r == [NoRequest EXCEPT !.op = "POST"]
  IN /\ e.stage = "counted"
     /\ UNCHANGED <<counter, nextOid, now, last, maxCreated, deleted, fresh>>
     /\ IF Duplicate(tasks, e.doc) THEN
          /\ inflight' = inflight \ {e}
          /\ Await(Failure(r, 500, "E11000"))
          /\ UNCHANGED <<tasks, firstHeld>>
        ELSE
          /\ tasks' = tasks \cup {e.doc}
          /\ firstHeld' = Held(e.doc)
          /\ inflight' = (inflight \ {e}) \cup {[e EXCEPT !.stage = "inserted"]}
          /\ UNCHANGED pending

\* save() returns and the handler answers 201 with newTask, the document
\* it holds in memory
PostRespond(e) ==
  LET r == [NoRequest EXCEPT !.op = "POST"]
  IN /\ e.stage = "inserted"
     /\ inflight' = inflight \ {e}
     /\ maxCreated' = IF e.doc.id.v > maxCreated THEN e.doc.id.v ELSE maxCreated
     /\ fresh' = fresh \cup {[id |-> e.doc.id, body |-> e.body, resp |-> e.doc]}
     /\ last' = [r EXCEPT !.code = 201, !.kind = "task", !.out = e.doc]
     /\ UNCHANGED <<tasks, counter, nextOid, now, pending, firstHeld, deleted>>

(* ------------------------------ GET ------------------------------------ *)
\* what GET / answers once Task.find has read the tasks
ListAnswer(q) ==
  [NoRequest EXCEPT !.op = "LIST", !.code = 200,
                    !.kind = "list", !.out = Find(tasks, q)]

\* GET /: Task.find reads the tasks
List(q) ==
  /\ InFlight < MaxInFlight
  /\ Await(ListAnswer(q))
  /\ UNCHANGED <<tasks, counter, nextOid, now, inflight, last,
                 maxCreated, firstHeld, deleted, fresh>>

\* what GET /:id answers once Task.findOne has read the tasks
GetAnswer(path) ==
  LET n == ParseInt(path)
      r == [NoRequest EXCEPT !.op = "GET"]
  IN IF n = NaN THEN Failure(r, 500, "CastError")
     ELSE IF Matching(tasks, n) = {}
       THEN Failure(r, 404, "Tarea no encontrada")
     ELSE [r EXCEPT !.code = 200, !.kind = "task",
                    !.out = CHOOSE t \in Matching(tasks, n) : TRUE]

\* GET /:id: Task.findOne reads the tasks
Get(path) ==
  /\ InFlight < MaxInFlight
  /\ Await(GetAnswer(path))
  /\ UNCHANGED <<tasks, counter, nextOid, now, inflight, last,
                 maxCreated, firstHeld, deleted, fresh>>

(* ---------------------------- PUT /tasks/:id --------------------------- *)
\* what PUT /:id answers once Task.findOneAndUpdate is done
PutAnswer(path, body) ==
  LET n == ParseInt(path)
      r == [NoRequest EXCEPT !.op = "PUT"]
      upd == CastUpdate(body)
      old == CHOOSE t \in Matching(tasks, n) : TRUE
      new == ApplyUpdate(old, upd)
  IN IF n = NaN \/ \E f \in Fields : upd[f] = CastError
       THEN Failure(r, 500, "CastError")
     ELSE IF UpdateErrors(upd) # {} THEN Failure(r, 500, "ValidationError")
     ELSE IF Matching(tasks, n) = {} THEN Failure(r, 404, "Tarea no encontrada")
     ELSE IF Duplicate(tasks, new) THEN Failure(r, 500, "E11000")
     ELSE [r EXCEPT !.code = 200, !.kind = "task", !.out = new]

\* PUT /:id: Task.findOneAndUpdate casts and validates the update, and
\* updates the task of that id
Put(path, body) ==
  \E answer \in {PutAnswer(path, body)} :
    /\ InFlight < MaxInFlight
    /\ Await(answer)
    /\ UNCHANGED <<counter, nextOid, now, inflight, last, maxCreated, deleted>>
    /\ IF answer.code = 200 THEN
         /\ tasks' = (tasks \ {CHOOSE t \in Matching(tasks, ParseInt(path)) : TRUE})
                        \cup {answer.out}
         /\ firstHeld' = Held(answer.out)
         /\ fresh' = {f \in fresh : f.id # ParseInt(path)}
       ELSE UNCHANGED <<tasks, firstHeld, fresh>>

(* --------------------------- DELETE /tasks/:id ------------------------- *)
\* what DELETE /:id answers once Task.findOneAndDelete is done
DeleteAnswer(path) ==
  LET n == ParseInt(path)
      r == [NoRequest EXCEPT !.op = "DELETE"]
  IN IF n = NaN THEN Failure(r, 500, "CastError")
     ELSE IF Matching(tasks, n) = {}
       THEN Failure(r, 404, "Tarea no encontrada")
     ELSE [r EXCEPT !.code = 200, !.kind = "message",
                    !.out = "Tarea eliminada correctamente"]

\* DELETE /:id: Task.findOneAndDelete removes the task of that id
Delete(path) ==
  \E answer \in {DeleteAnswer(path)} :
    /\ InFlight < MaxInFlight
    /\ Await(answer)
    /\ UNCHANGED <<counter, nextOid, now, inflight, last, maxCreated, firstHeld>>
    /\ IF answer.code = 200 THEN
         /\ tasks' = tasks \ {CHOOSE t \in Matching(tasks, ParseInt(path)) : TRUE}
         /\ deleted' = deleted \cup {ParseInt(path)}
         /\ fresh' = {f \in fresh : f.id # ParseInt(path)}
       ELSE UNCHANGED <<tasks, deleted, fresh>>

(* --------------------------- the response ------------------------------ *)
\* the callback after the await of a handler sends its answer
Respond(p) ==
  /\ p.n = Cardinality({o \in pending : o.answer = p.answer})
  /\ pending' = pending \ {p}
  /\ last' = p.answer
  /\ UNCHANGED <<tasks, counter, nextOid, now, inflight,
                 maxCreated, firstHeld, deleted, fresh>>

(* --------------------------- the requests ------------------------------ *)
\* no request is between the start of its handler and its response
Idle == inflight = {} /\ pending = {}

\* the requests of a scenario: its POST bodies, PUT bodies, paths and
\* status queries; overlap: a request may arrive while others await their
\* database call or their response (else each request is answered before
\* the next one arrives)
Requests(posts, puts, paths, queries, overlap) ==
  \/ \E body \in posts : (overlap \/ Idle) /\ PostStart(body)
  \/ \E e \in inflight : PostCount(e)
  \/ \E e \in inflight : PostInsert(e)
  \/ \E e \in inflight : PostRespond(e)
  \/ \E q \in queries : (overlap \/ Idle) /\ List(q)
  \/ \E path \in paths : (overlap \/ Idle) /\ Get(path)
  \/ \E path \in paths, body \in puts : (overlap \/ Idle) /\ Put(path, body)
  \/ \E path \in paths : (overlap \/ Idle) /\ Delete(path)
  \/ \E p \in pending : Respond(p)

PlainBody == Body(Str(sA), Str(sD), Undef)

IdBodies == { [NoBody EXCEPT !.id = Num(i)] : i \in IdRange }

\* requests that overlap: creates in flight at once, between reads, updates
\* and deletes
NextIds ==
  Requests({PlainBody, NoBody}, {NoBody}, {NumToStr(1)}, {Undef}, TRUE)

SpecIds == Init /\ [][NextIds]_vars

\* every update body and every path, one request at a time
NextUpdate ==
  Requests({PlainBody, NoBody}, PutBodies, Paths, {Undef}, FALSE)

SpecUpdate == Init /\ [][NextUpdate]_vars

\* every create body, on a store whose tasks are updated and deleted, one
\* request at a time
NextCreate ==
  Requests(PostBodies, {NoBody, Body(Str(sB), Undef, Undef)}, Paths, {Undef},
           FALSE)

SpecCreate == Init /\ [][NextCreate]_vars

\* reads of created tasks, between updates and deletes, one request at a
\* time
NextRead ==
  Requests({PlainBody, Body(Str(sA), Str(sD), Bool(TRUE)),
            Body(Str(sA), Str(sD), Str(<<"1">>)), NoBody},
           {NoBody, Body(Str(sB), Undef, Undef)} \cup IdBodies,
           Paths, {Undef}, FALSE)

SpecRead == Init /\ [][NextRead]_vars

\* every status query, over tasks of every status, one request at a time
NextList ==
  Requests({PlainBody, Body(Str(sA), Str(sD), Bool(TRUE)), NoBody},
           {Body(Undef, Undef, Bool(TRUE)), Body(Undef, Undef, Str(<<"0">>)),
            Body(Undef, Undef, Null)},
           Paths, Queries, FALSE)

SpecList == Init /\ [][NextList]_vars

(* ======================= properties ==================================== *)

\* C1 (as stated): a create answered 201 carries an id strictly greater than
\* the id of every task created (answered 201) before it, also when creates
\* are in flight at once.
C1_IdAboveEveryEarlierTask ==
  [][\A e \in inflight :
       (PostRespond(e) /\ last'.code = 201) => e.doc.id.v > maxCreated]_vars

\* C1 (amended): a create answered 201 carries an id strictly greater than
\* the id of every task whose create was answered 201 before this request
\* began.
C1_IdAboveTasksCreatedBeforeRequest ==
  [][\A e \in inflight :
       (PostRespond(e) /\ last'.code = 201) => e.doc.id.v > e.startMax]_vars

\* two creates were in flight at once, and the one with the smaller id was
\* answered 201 last
C1_Witness ==
  /\ last.op = "POST" /\ last.code = 201
  /\ last.out.id.v < maxCreated
  /\ \E t \in tasks : t.id.v = maxCreated

\* C2: no two persisted tasks share an id, and no id that a task ever held
\* (a deleted task included) is held by a different task.
C2_IdsUniqueNeverReused ==
  /\ \A t, u \in tasks : t.id = u.id => t = u
  /\ \A t \in tasks :
       t.id.k = "number" /\ (t.id.v \in IdRange => firstHeld[t.id.v] = t.oid)

\* C3: a PUT answered 200 changes only the fields its body names among
\* title, description and status, and leaves id and creationDate as before.
C3_PutChangesOnlyNamedFields ==
  [][\A path \in Paths, body \in PutBodies :
       (Put(path, body) /\ PutAnswer(path, body).code = 200) =>
         LET old == CHOOSE t \in Matching(tasks, ParseInt(path)) : TRUE
             out == PutAnswer(path, body).out
         IN /\ out \in tasks'
            /\ out.id = old.id
            /\ out.creationDate = old.creationDate
            /\ \A f \in {"title", "description", "status"} :
                 body[f] = Undef => out[f] = old[f]]_vars

EmptyOrMissing(x) == x \in {Undef, Null, Str(<<>>)}

\* C4: a POST whose title or description is empty or missing is answered 400
\* with the failing fields listed, and leaves the tasks and the counter as
\* they were.
C4_InvalidCreateRejected ==
  [][\A body \in PostBodies :
       (PostStart(body)
          /\ (EmptyOrMissing(body.title) \/ EmptyOrMissing(body.description))) =>
         /\ last'.code = 400 /\ last'.kind = "errors"
         /\ EmptyOrMissing(body.title) => "title" \in last'.out
         /\ EmptyOrMissing(body.description) => "description" \in last'.out
         /\ tasks' = tasks /\ counter' = counter /\ inflight' = inflight]_vars

\* a create without a description was rejected while tasks were persisted
C4_Witness ==
  /\ last.op = "POST" /\ last.code = 400
  /\ "description" \in last.out /\ "title" \notin last.out
  /\ tasks # {}

InvalidUpdate(body) ==
  \/ body.title = Str(<<>>)
  \/ body.description = Str(<<>>)
  \/ body.status # Undef /\ body.status.k # "boolean"

\* C5: a PUT of a persisted task whose body sets title or description to
\* empty, or status to a non-boolean, is answered 400 with per-field
\* messages and changes no task.
C5_InvalidUpdateAnswered400 ==
  [][\A path \in Paths, body \in PutBodies :
       (Put(path, body) /\ InvalidUpdate(body)
          /\ Matching(tasks, ParseInt(path)) # {}) =>
         /\ PutAnswer(path, body).code = 400
         /\ PutAnswer(path, body).kind = "errors"
         /\ tasks' = tasks]_vars

\* C6: once a DELETE has removed the task of an id, a GET of that id is
\* answered 404, whatever requests on other tasks came in between.
C6_DeletedIdStaysNotFound ==
  [][\A path \in Paths :
       (Get(path) /\ ParseInt(path) \in deleted) =>
         GetAnswer(path).code = 404]_vars

\* C7: every persisted task has a non-empty title, a non-empty description
\* and a boolean status.
C7_PersistedFieldsValid ==
  \A t \in tasks :
    /\ t.title.k = "string" /\ Len(t.title.v) > 0
    /\ t.description.k = "string" /\ Len(t.description.v) > 0
    /\ t.status.k = "boolean"

\* C8: GET /tasks answers exactly the tasks of status true for status=true,
\* exactly the tasks of status false for any other status, and every task
\* without a status parameter.
C8_StatusFilter ==
  [][\A q \in Queries :
       List(q) =>
         /\ ListAnswer(q).code = 200
         /\ ListAnswer(q).out =
              IF q = Undef THEN tasks
              ELSE IF q = Str(sTrue)
                THEN {t \in tasks : t.status = Bool(TRUE)}
              ELSE {t \in tasks : t.status = Bool(FALSE)}]_vars

\* a list that holds some of the persisted tasks and leaves out others, one
\* of them a task whose status is neither true nor false
C8_Witness ==
  /\ last.op = "LIST" /\ last.out # {} /\ last.out # tasks
  /\ \E t \in tasks : t.status = Bool(TRUE)
  /\ \E t \in tasks : t.status = Null

\* C9: a GET of an id answered 201, with no update or delete of it since,
\* answers 200 with the submitted title, description and status (false when
\* omitted) and the id and creationDate of the 201 response.
C9_GetReturnsSubmitted ==
  [][\A path \in Paths : \A f \in fresh :
       (Get(path) /\ f.id = ParseInt(path)) =>
         LET out == GetAnswer(path).out
         IN /\ GetAnswer(path).code = 200
            /\ out.title = f.body.title
            /\ out.description = f.body.description
            /\ out.status =
                 (IF f.body.status = Undef THEN Bool(FALSE) ELSE f.body.status)
            /\ out.id = f.resp.id
            /\ out.creationDate = f.resp.creationDate]_vars

\* C10: GET, PUT and DELETE of an id no persisted task has are answered 404
\* with a message, and leave the tasks and the counter as they were.
C10_MissingIdNotFound ==
  [][\A path \in Paths :
       (ParseInt(path) # NaN /\ Matching(tasks, ParseInt(path)) = {}) =>
         /\ Get(path) =>
              /\ GetAnswer(path).code = 404 /\ GetAnswer(path).kind = "message"
              /\ tasks' = tasks /\ counter' = counter
         /\ Delete(path) =>
              /\ DeleteAnswer(path).code = 404
              /\ DeleteAnswer(path).kind = "message"
              /\ tasks' = tasks /\ counter' = counter
         /\ \A body \in PutBodies :
              Put(path, body) =>
                /\ PutAnswer(path, body).code = 404
                /\ PutAnswer(path, body).kind = "message"
                /\ tasks' = tasks /\ counter' = counter]_vars

====
